---- MODULE Spec2Model ----
(***************************************************************************)
(* Shared-memory all-to-all exchange of legate.core                        *)
(*   src/src/core/comm/alltoall_thread_local.cc   collAlltoallLocal        *)
(*   src/src/core/comm/alltoallv_thread_local.cc  collAlltoallvLocal       *)
(*   src/src/core/comm/comm_cpu.cc                init_cpucoll             *)
(* One process per participant; every shared-memory access of a participant*)
(* that another one can observe is one step.  Participants are numbered    *)
(* 0 .. Size-1; in a single group participant r has rank r.  Offsets and   *)
(* lengths are in elements: the byte offsets of the code are these times   *)
(* the common extent of the type.                                          *)
(***************************************************************************)
EXTENDS Integers, Sequences, FiniteSets, TLC

\* ------------------------------------------------------------------ bounds
Size == 2
MaxCalls == 3
Count == 2

\* depth of the exchange buffer pool ("double/multi-buffered")
PoolDepth == 2

Ranks == 0 .. (Size - 1)
Slots == 0 .. (PoolDepth - 1)
Kinds == {"alltoall", "alltoallv"}
Layouts == {"asc", "desc"}
Types == {"int", "double"}

\* ------------------------------------------------------------------ values
\* a pointer is <<region, owning rank, number of the call it was made in>>
NULL == <<"null", 0, 0>>
SendBuf(r, k) == <<"send", r, k>>
ScratchBuf(r, k) == <<"scratch", r, k>>
DisplsTable(r, k) == <<"displs", r, k>>

\* an element is <<call, sending rank, offset in the sender's buffer>>
Tok(k, p, e) == <<k, p, e>>
Empty == <<0, 0, 0>>
Garbage == <<-1, 0, 0>>

RECURSIVE SumOver(_, _, _)
SumOver(F(_), lo, hi) == IF lo > hi THEN 0 ELSE F(lo) + SumOver(F, lo + 1, hi)

Max(a, b) == IF a >= b THEN a ELSE b

VARIABLES
  kind,                \* which collective the group runs
  ncalls,              \* how many consecutive calls every rank is to issue
  task,                \* task[r]: index point, domain volume, futures, unique id
  comm,                \* comm[r]: the communicator init_cpucoll returned
  inplace,             \* inplace[r]: rank r calls with sendbuf == recvbuf
  layout,              \* layout[r]: shape of rank r's displacement tables
  pc,                  \* position of each rank
  ncall,               \* number of the call a rank is in (or has returned from)
  args,                \* count and type arguments of the current call
  current_buffer_idx,  \* global_comm->current_buffer_idx
  buffers,             \* pool: buffers[s][r]
  buffers_ready,       \* pool: buffers_ready[s][r]
  displs,              \* pool: displs[s][r]
  sendbuf_tmp,         \* the pointer a rank publishes
  todo,                \* stores of the publication not yet visible
  i,                   \* loop index
  src_base,            \* local src_base
  displs_loc,          \* local displs
  recvbuf,             \* contents of the caller's receive buffer
  scratch,             \* contents of the malloc'ed scratch buffer
  alloc,               \* call number whose scratch buffer is live, 0 if none
  bar_count,           \* local barrier: arrivals of the current round
  bar_gen,             \* local barrier: generation
  my_gen               \* generation a waiting rank arrived in

vars == <<kind, ncalls, task, comm, inplace, layout, pc, ncall, args, current_buffer_idx, buffers,
          buffers_ready, displs, sendbuf_tmp, todo, i, src_base, displs_loc,
          recvbuf, scratch, alloc, bar_count, bar_gen, my_gen>>

\* ---------------------------------------------------------- communicator
\* what the task runtime hands to init_cpucoll: the index point, the volume of
\* the index domain, the number of futures and the unique id of the group
TaskOf(point, n, uid) ==
  [point |-> point, num_ranks |-> n, nfutures |-> n + 1, unique_id |-> uid]

\* no communicator yet
NoComm == [global_rank |-> -1, global_comm_size |-> 0, unique_id |-> -1]

\* assert(task->futures.size() == num_ranks + 1)
FuturesOK(t) == t.nfutures = t.num_ranks + 1

\* faulty variant: rank and size are passed in each other's place
CreateArgs_Swapped(t) ==
  [global_comm_size |-> t.point, global_rank |-> t.num_ranks, unique_id |-> t.unique_id]

\* collCommCreate(comm, num_ranks, point, *unique_id, ...)
CreateArgs(t) ==
  [global_comm_size |-> t.num_ranks, global_rank |-> t.point, unique_id |-> t.unique_id]

\* the group collCommCreate accepts: it fails when rank >= size or size <= 0
ValidGroup(a) == ~(a.global_rank >= a.global_comm_size \/ a.global_comm_size <= 0)

\* global_comm->global_rank and global_comm->global_comm_size
global_rank(r) == comm[r].global_rank
total_size(r) == comm[r].global_comm_size

\* ------------------------------------------------- ragged tables (inputs)
\* number of elements rank p sends to rank r
Cnt(p, r) == 1 + ((p + 2 * r) % 3)

sendcounts(r) == [j \in Ranks |-> Cnt(r, j)]
recvcounts(r) == [p \in Ranks |-> Cnt(p, r)]

sdispls(r) ==
  [j \in Ranks |->
     LET C(x) == Cnt(r, x)
     IN  IF layout[r] = "asc" THEN SumOver(C, 0, j - 1)
                              ELSE SumOver(C, j + 1, Size - 1)]

rdispls(r) ==
  [p \in Ranks |->
     LET C(x) == Cnt(x, r)
     IN  IF layout[r] = "asc" THEN SumOver(C, 0, p - 1)
                              ELSE SumOver(C, p + 1, Size - 1)]

SendLenV(r) == LET C(x) == Cnt(r, x) IN SumOver(C, 0, Size - 1)
RecvLenV(r) == LET C(x) == Cnt(x, r) IN SumOver(C, 0, Size - 1)

\* length of the caller's buffers in a call with arguments a
SendLen(r, a) == IF kind = "alltoall" THEN total_size(r) * a.sendcount ELSE SendLenV(r)
RecvLen(r, a) == IF kind = "alltoall" THEN total_size(r) * a.recvcount ELSE RecvLenV(r)
UserLen(r, a) ==
  IF inplace[r] THEN Max(SendLen(r, a), RecvLen(r, a)) ELSE RecvLen(r, a)

\* --------------------------------------------------------------- memory
\* element e of the region a pointer names, as a peer's memcpy reads it.
\* A send buffer holds the payload of its call; a scratch buffer holds what
\* was copied into it, once that copy is visible and while it is allocated;
\* reading through a null pointer, past the end of a region, from freed
\* memory or from memory whose contents are not yet visible yields an
\* arbitrary value.
ReadElem(ptr, e) ==
  LET r == ptr[2]
      k == ptr[3]
  IN  CASE ptr[1] = "send" ->
             IF e >= 0
                /\ e < (IF kind = "alltoall" THEN total_size(r) * Count ELSE SendLenV(r))
               THEN Tok(k, r, e) ELSE Garbage
        [] ptr[1] = "scratch" ->
             IF alloc[r] = k /\ "scratch" \notin todo[r] /\ e >= 0 /\ e < Len(scratch[r])
               THEN scratch[r][e + 1] ELSE Garbage
        [] OTHER -> Garbage

\* the displacement table a published table pointer names
TableOf(dptr) == sdispls(dptr[2])

\* memcpy(dst, src, len) into the receive buffer of rank r
CopyInto(buf, dst, ptr, src, len) ==
  [e \in DOMAIN buf |->
     IF e >= dst /\ e < dst + len THEN ReadElem(ptr, src + (e - dst)) ELSE buf[e]]

\* ------------------------------------------------------------ arguments
NoArgs == [sendcount |-> 0, recvcount |-> 0, sendtype |-> "int", recvtype |-> "int"]

ArgSet ==
  IF kind = "alltoall"
    THEN [sendcount : {Count}, recvcount : {Count, Count + 1},
          sendtype : {"int"}, recvtype : Types]
    ELSE [sendcount : {0}, recvcount : {0}, sendtype : {"int"}, recvtype : Types]

\* faulty variant: the type assertion is missing
PrecondOK_CountOnly(a) == a.recvcount = a.sendcount

\* the assertions at function entry
PrecondOK(a) ==
  IF kind = "alltoall"
    THEN a.recvcount = a.sendcount /\ a.sendtype = a.recvtype
    ELSE a.sendtype = a.recvtype

\* sendbuf == recvbuf
InPlace(r) == inplace[r]

\* faulty variant: the scratch buffer is sized from the first table entry
ScratchLen_FirstEntry(r, a) ==
  IF kind = "alltoall"
    THEN total_size(r) * a.sendcount
    ELSE sdispls(r)[0] + sendcounts(r)[0]

\* number of elements copied into the scratch buffer of an in-place call
ScratchLen(r, a) ==
  IF kind = "alltoall"
    THEN total_size(r) * a.sendcount
    ELSE sdispls(r)[total_size(r) - 1] + sendcounts(r)[total_size(r) - 1]

\* faulty variant: only the buffer pointer is stored, neither the ready flag
\* nor the displacement table
PublishStores_PointerOnly(r) ==
  {"buffers"} \cup (IF InPlace(r) THEN {"scratch"} ELSE {})

\* the stores a rank makes between function entry and the fence: the memcpy
\* into the scratch buffer of an in-place call, and the slot entries
PublishStores(r) ==
  (IF kind = "alltoall" THEN {"buffers", "buffers_ready"} ELSE {"displs", "buffers"})
    \cup (IF InPlace(r) THEN {"scratch"} ELSE {})

\* These are plain stores to memory the peers read concurrently, and no fence
\* separates them (the only fence follows the last one), so any pending
\* store may be the next to become visible to the peers.
MayBecomeVisible(w, pending) == w \in pending

recvfrom_global_rank(r) == (global_rank(r) + total_size(r) - i[r]) % total_size(r)
recvfrom_seg_id(r) == global_rank(r)

\* faulty variant: the publication goes into the next rank's entries
PublishEntry_Next(r) == (global_rank(r) + 1) % total_size(r)

\* the slot entries a rank publishes into: buffers[global_rank] and so on
PublishEntry(r) == global_rank(r)

\* faulty variant: the scratch buffer is not freed
AfterBarrier_NoFree(r) == "advance"

\* what follows the barrier: the free of an in-place call, then the advance
AfterBarrier(r) == IF InPlace(r) THEN "free" ELSE "advance"

\* faulty variant: the call goes on without entering the barrier
AfterLoop_NoBarrier(r) == AfterBarrier(r)

\* what follows the copy loop
AfterLoop(r) == "barrier"

\* -------------------------------------------------------------- actions
\* the pool and the participants' locals before any call
Blank ==
  /\ ncall = [r \in Ranks |-> 0]
  /\ args = [r \in Ranks |-> NoArgs]
  /\ buffers = [s \in Slots |-> [r \in Ranks |-> NULL]]
  /\ buffers_ready = [s \in Slots |-> [r \in Ranks |-> FALSE]]
  /\ displs = [s \in Slots |-> [r \in Ranks |-> NULL]]
  /\ sendbuf_tmp = [r \in Ranks |-> NULL]
  /\ todo = [r \in Ranks |-> {}]
  /\ i = [r \in Ranks |-> 0]
  /\ src_base = [r \in Ranks |-> NULL]
  /\ displs_loc = [r \in Ranks |-> NULL]
  /\ recvbuf = [r \in Ranks |-> <<>>]
  /\ scratch = [r \in Ranks |-> <<>>]
  /\ alloc = [r \in Ranks |-> 0]
  /\ bar_count = 0
  /\ bar_gen = 0
  /\ my_gen = [r \in Ranks |-> 0]

\* all participants form one group, participant r with rank r
OneGroup ==
  /\ task = [r \in Ranks |-> TaskOf(r, Size, 0)]
  /\ comm = [r \in Ranks |-> CreateArgs(task[r])]

\* the state of a freshly created group: every communicator created, no call
\* entered, every pool entry empty, every cursor at slot 0
Fresh ==
  /\ OneGroup
  /\ pc = [r \in Ranks |-> "idle"]
  /\ current_buffer_idx = [r \in Ranks |-> 0]
  /\ Blank

\* init_cpucoll: the futures assertion, then collCommCreate with the domain
\* volume as size and the index point as rank.  A group collCommCreate
\* rejects is a fatal precondition error: the participant stops without a
\* communicator.
init_cpucoll(r) ==
  /\ pc[r] = "nocomm"
  /\ IF FuturesOK(task[r]) /\ ValidGroup(CreateArgs(task[r]))
       THEN /\ comm' = [comm EXCEPT ![r] = CreateArgs(task[r])]
            /\ current_buffer_idx' = [current_buffer_idx EXCEPT ![r] = 0]
            /\ pc' = [pc EXCEPT ![r] = "idle"]
       ELSE /\ pc' = [pc EXCEPT ![r] = "aborted"]
            /\ UNCHANGED <<comm, current_buffer_idx>>
  /\ UNCHANGED <<kind, ncalls, task, inplace, layout, ncall, args, buffers, buffers_ready,
                 displs, sendbuf_tmp, todo, i, src_base, displs_loc, recvbuf, scratch,
                 alloc, bar_count, bar_gen, my_gen>>

\* inputs: the collective, the number of calls, which ranks call in place and
\* the shape of each rank's tables (alltoall has no tables)
Init ==
  /\ kind \in Kinds
  /\ ncalls = MaxCalls
  /\ inplace \in [Ranks -> BOOLEAN]
  /\ layout \in [Ranks -> Layouts]
  /\ (kind = "alltoall" => layout = [r \in Ranks |-> "asc"])
  /\ Fresh

\* Entry of a collective call up to the publication: the assertions, the
\* in-place test, malloc and memcpy of the scratch buffer.
Call(r) ==
  /\ pc[r] = "idle"
  /\ ncall[r] < ncalls
  /\ \E a \in ArgSet :
       /\ args' = [args EXCEPT ![r] = a]
       /\ IF ~PrecondOK(a)
            THEN /\ pc' = [pc EXCEPT ![r] = "aborted"]
                 /\ UNCHANGED <<ncall, recvbuf, scratch, alloc, sendbuf_tmp, todo,
                                i, src_base, displs_loc>>
            ELSE LET k == ncall[r] + 1
                     user == [e \in 0 .. (UserLen(r, a) - 1) |->
                                IF InPlace(r) THEN Tok(k, r, e) ELSE Empty]
                 IN  /\ ncall' = [ncall EXCEPT ![r] = k]
                     /\ recvbuf' = [recvbuf EXCEPT ![r] = user]
                     /\ IF InPlace(r)
                          THEN /\ scratch' = [scratch EXCEPT ![r] =
                                    [e \in 1 .. ScratchLen(r, a) |->
                                       IF (e - 1) \in DOMAIN user THEN user[e - 1]
                                                                  ELSE Garbage]]
                               /\ alloc' = [alloc EXCEPT ![r] = k]
                               /\ sendbuf_tmp' = [sendbuf_tmp EXCEPT ![r] = ScratchBuf(r, k)]
                          ELSE /\ UNCHANGED <<scratch, alloc>>
                               /\ sendbuf_tmp' = [sendbuf_tmp EXCEPT ![r] = SendBuf(r, k)]
                     /\ todo' = [todo EXCEPT ![r] = PublishStores(r)]
                     /\ i' = [i EXCEPT ![r] = 0]
                     /\ src_base' = [src_base EXCEPT ![r] = NULL]
                     /\ displs_loc' = [displs_loc EXCEPT ![r] = NULL]
                     /\ pc' = [pc EXCEPT ![r] = "publish"]
  /\ UNCHANGED <<kind, ncalls, task, comm, inplace, layout, current_buffer_idx, buffers, buffers_ready,
                 displs, bar_count, bar_gen, my_gen>>

\* One of the pending stores becomes visible; after the last one the fence is
\* passed and the copy loop starts at i = 1.
Publish(r) ==
  /\ pc[r] = "publish"
  /\ \E w \in todo[r] :
       /\ MayBecomeVisible(w, todo[r])
       /\ LET s == current_buffer_idx[r]
              g == PublishEntry(r)
          IN  /\ buffers' = IF w = "buffers"
                              THEN [buffers EXCEPT ![s][g] = sendbuf_tmp[r]]
                              ELSE buffers
              /\ buffers_ready' = IF w = "buffers_ready"
                                    THEN [buffers_ready EXCEPT ![s][g] = TRUE]
                                    ELSE buffers_ready
              /\ displs' = IF w = "displs"
                             THEN [displs EXCEPT ![s][g] = DisplsTable(r, ncall[r])]
                             ELSE displs
       /\ todo' = [todo EXCEPT ![r] = todo[r] \ {w}]
       /\ IF todo[r] = {w}
            THEN /\ pc' = [pc EXCEPT ![r] = "poll"]
                 /\ i' = [i EXCEPT ![r] = 1]
            ELSE UNCHANGED <<pc, i>>
  /\ UNCHANGED <<kind, ncalls, task, comm, inplace, layout, ncall, args, current_buffer_idx, sendbuf_tmp,
                 src_base, displs_loc, recvbuf, scratch, alloc, bar_count, bar_gen,
                 my_gen>>

\* faulty variant: the loop stops one peer early, before the rank itself
NextPeer_SkipsSelf(r) ==
  /\ i' = [i EXCEPT ![r] = i[r] + 1]
  /\ pc' = [pc EXCEPT ![r] = IF i[r] + 1 < total_size(r) THEN "poll" ELSE AfterLoop(r)]

\* The copy of one peer's segment; the loop then moves to the next peer or
\* leaves for the barrier.
NextPeer(r) ==
  /\ i' = [i EXCEPT ![r] = i[r] + 1]
  /\ pc' = [pc EXCEPT ![r] = IF i[r] + 1 < total_size(r) + 1 THEN "poll" ELSE AfterLoop(r)]

\* alltoall: the busy-wait on buffers_ready[peer] ends
PollReady(r) ==
  /\ pc[r] = "poll"
  /\ kind = "alltoall"
  /\ buffers_ready[current_buffer_idx[r]][recvfrom_global_rank(r)] = TRUE
  /\ pc' = [pc EXCEPT ![r] = "copy"]
  /\ UNCHANGED <<kind, ncalls, task, comm, inplace, layout, ncall, args, current_buffer_idx, buffers,
                 buffers_ready, displs, sendbuf_tmp, todo, i, src_base, displs_loc,
                 recvbuf, scratch, alloc, bar_count, bar_gen, my_gen>>

\* alltoall: read buffers[peer] and memcpy the segment meant for this rank
Copy(r) ==
  /\ pc[r] = "copy"
  /\ LET peer == recvfrom_global_rank(r)
         base == buffers[current_buffer_idx[r]][peer]
         src  == recvfrom_seg_id(r) * args[r].sendcount
         dst  == peer * args[r].recvcount
     IN  /\ src_base' = [src_base EXCEPT ![r] = base]
         /\ recvbuf' = [recvbuf EXCEPT ![r] =
                          CopyInto(recvbuf[r], dst, base, src, args[r].sendcount)]
  /\ NextPeer(r)
  /\ UNCHANGED <<kind, ncalls, task, comm, inplace, layout, ncall, args, current_buffer_idx, buffers,
                 buffers_ready, displs, sendbuf_tmp, todo, displs_loc, scratch, alloc,
                 bar_count, bar_gen, my_gen>>

\* alltoallv: the loop condition reads buffers[peer] ...
PollBuffers(r) ==
  /\ pc[r] = "poll"
  /\ kind = "alltoallv"
  /\ buffers[current_buffer_idx[r]][recvfrom_global_rank(r)] # NULL
  /\ pc' = [pc EXCEPT ![r] = "poll2"]
  /\ UNCHANGED <<kind, ncalls, task, comm, inplace, layout, ncall, args, current_buffer_idx, buffers,
                 buffers_ready, displs, sendbuf_tmp, todo, i, src_base, displs_loc,
                 recvbuf, scratch, alloc, bar_count, bar_gen, my_gen>>

\* ... and then displs[peer]; a null table sends it round the loop again
PollDispls(r) ==
  /\ pc[r] = "poll2"
  /\ pc' = [pc EXCEPT ![r] =
              IF displs[current_buffer_idx[r]][recvfrom_global_rank(r)] # NULL
                THEN "fetch" ELSE "poll"]
  /\ UNCHANGED <<kind, ncalls, task, comm, inplace, layout, ncall, args, current_buffer_idx, buffers,
                 buffers_ready, displs, sendbuf_tmp, todo, i, src_base, displs_loc,
                 recvbuf, scratch, alloc, bar_count, bar_gen, my_gen>>

\* alltoallv: src_base = buffers[peer]
FetchBase(r) ==
  /\ pc[r] = "fetch"
  /\ src_base' = [src_base EXCEPT ![r] =
                    buffers[current_buffer_idx[r]][recvfrom_global_rank(r)]]
  /\ pc' = [pc EXCEPT ![r] = "copyv"]
  /\ UNCHANGED <<kind, ncalls, task, comm, inplace, layout, ncall, args, current_buffer_idx, buffers,
                 buffers_ready, displs, sendbuf_tmp, todo, i, displs_loc, recvbuf,
                 scratch, alloc, bar_count, bar_gen, my_gen>>

\* faulty variant: the peer's table is indexed by the peer instead of by this rank
SrcOffsetV_ByPeer(r, peer, tab) == tab[peer]

\* source offset, destination offset and length of the ragged copy by rank r
\* from peer, through the peer's table tab
SrcOffsetV(r, peer, tab) == tab[recvfrom_seg_id(r)]
DstOffsetV(r, peer) == rdispls(r)[peer]
CopyLenV(r, peer) == recvcounts(r)[peer]

\* alltoallv: displs = displs[peer] and the memcpy
CopyV(r) ==
  /\ pc[r] = "copyv"
  /\ LET peer == recvfrom_global_rank(r)
         dptr == displs[current_buffer_idx[r]][peer]
     IN  /\ displs_loc' = [displs_loc EXCEPT ![r] = dptr]
         /\ recvbuf' = [recvbuf EXCEPT ![r] =
              IF dptr = NULL
                THEN [e \in DOMAIN recvbuf[r] |->
                        IF e >= DstOffsetV(r, peer)
                           /\ e < DstOffsetV(r, peer) + CopyLenV(r, peer)
                          THEN Garbage ELSE recvbuf[r][e]]
                ELSE CopyInto(recvbuf[r], DstOffsetV(r, peer), src_base[r],
                              SrcOffsetV(r, peer, TableOf(dptr)), CopyLenV(r, peer))]
  /\ NextPeer(r)
  /\ UNCHANGED <<kind, ncalls, task, comm, inplace, layout, ncall, args, current_buffer_idx, buffers,
                 buffers_ready, displs, sendbuf_tmp, todo, src_base, scratch, alloc,
                 bar_count, bar_gen, my_gen>>

\* faulty variant: a waiting rank does not wait for the generation to change
Released_AtOnce(r) == TRUE

\* a waiting rank is released once the generation it arrived in has ended
Released(r) == bar_gen # my_gen[r]

\* Local barrier: arrive; the last arrival opens the next generation.
BarrierEnter(r) ==
  /\ pc[r] = "barrier"
  /\ my_gen' = [my_gen EXCEPT ![r] = bar_gen]
  /\ IF bar_count + 1 = total_size(r)
       THEN /\ bar_count' = 0
            /\ bar_gen' = bar_gen + 1
            /\ pc' = [pc EXCEPT ![r] = AfterBarrier(r)]
       ELSE /\ bar_count' = bar_count + 1
            /\ bar_gen' = bar_gen
            /\ pc' = [pc EXCEPT ![r] = "inbarrier"]
  /\ UNCHANGED <<kind, ncalls, task, comm, inplace, layout, ncall, args, current_buffer_idx, buffers,
                 buffers_ready, displs, sendbuf_tmp, todo, i, src_base, displs_loc,
                 recvbuf, scratch, alloc>>

\* Local barrier: a waiting rank sees the generation change and returns.
BarrierLeave(r) ==
  /\ pc[r] = "inbarrier"
  /\ Released(r)
  /\ pc' = [pc EXCEPT ![r] = AfterBarrier(r)]
  /\ UNCHANGED <<kind, ncalls, task, comm, inplace, layout, ncall, args, current_buffer_idx, buffers,
                 buffers_ready, displs, sendbuf_tmp, todo, i, src_base, displs_loc,
                 recvbuf, scratch, alloc, bar_count, bar_gen, my_gen>>

\* free(sendbuf_tmp) of an in-place call
Free(r) ==
  /\ pc[r] = "free"
  /\ alloc' = [alloc EXCEPT ![r] = 0]
  /\ scratch' = [scratch EXCEPT ![r] = <<>>]
  /\ pc' = [pc EXCEPT ![r] = "advance"]
  /\ UNCHANGED <<kind, ncalls, task, comm, inplace, layout, ncall, args, current_buffer_idx, buffers,
                 buffers_ready, displs, sendbuf_tmp, todo, i, src_base, displs_loc,
                 recvbuf, bar_count, bar_gen, my_gen>>

\* collUpdateBuffer: move the cursor to the next slot and reset this rank's
\* entries of that slot; the call then returns.
collUpdateBuffer(r) ==
  /\ pc[r] = "advance"
  /\ LET s == (current_buffer_idx[r] + 1) % PoolDepth
         g == global_rank(r)
     IN  /\ current_buffer_idx' = [current_buffer_idx EXCEPT ![r] = s]
         /\ buffers' = [buffers EXCEPT ![s][g] = NULL]
         /\ buffers_ready' = [buffers_ready EXCEPT ![s][g] = FALSE]
         /\ displs' = [displs EXCEPT ![s][g] = NULL]
  /\ pc' = [pc EXCEPT ![r] = "idle"]
  /\ UNCHANGED <<kind, ncalls, task, comm, inplace, layout, ncall, args, sendbuf_tmp, todo, i, src_base,
                 displs_loc, recvbuf, scratch, alloc, bar_count, bar_gen, my_gen>>

Next ==
  \E r \in Ranks :
    \/ Call(r)
    \/ Publish(r)
    \/ PollReady(r)
    \/ Copy(r)
    \/ PollBuffers(r)
    \/ PollDispls(r)
    \/ FetchBase(r)
    \/ CopyV(r)
    \/ BarrierEnter(r)
    \/ BarrierLeave(r)
    \/ Free(r)
    \/ collUpdateBuffer(r)

Spec == Init /\ [][Next]_vars

\* One alltoallv call with distinct send and receive buffers on every rank,
\* over every combination of table shapes.
InitRagged ==
  /\ kind = "alltoallv"
  /\ ncalls = 1
  /\ inplace = [r \in Ranks |-> FALSE]
  /\ layout \in [Ranks -> Layouts]
  /\ Fresh

NextRagged ==
  \E r \in Ranks :
    \/ Call(r)
    \/ Publish(r)
    \/ PollBuffers(r)
    \/ PollDispls(r)
    \/ FetchBase(r)
    \/ CopyV(r)
    \/ BarrierEnter(r)
    \/ BarrierLeave(r)
    \/ collUpdateBuffer(r)

SpecRagged == InitRagged /\ [][NextRagged]_vars

\* One alltoallv call in which every rank may pass the same buffer for
\* sending and receiving, over every combination of table shapes.
InitScratch ==
  /\ kind = "alltoallv"
  /\ ncalls = 1
  /\ inplace \in [Ranks -> BOOLEAN]
  /\ layout \in [Ranks -> Layouts]
  /\ Fresh

NextScratch ==
  \E r \in Ranks :
    \/ Call(r)
    \/ Publish(r)
    \/ PollBuffers(r)
    \/ PollDispls(r)
    \/ FetchBase(r)
    \/ CopyV(r)
    \/ BarrierEnter(r)
    \/ BarrierLeave(r)
    \/ Free(r)
    \/ collUpdateBuffer(r)

SpecScratch == InitScratch /\ [][NextScratch]_vars

\* Pipelined calls of either collective with sorted tables: every rank uses
\* distinct buffers, except that rank 0 may call alltoall in place.
InitPipeline ==
  /\ kind \in Kinds
  /\ ncalls = MaxCalls
  /\ inplace \in [Ranks -> BOOLEAN]
  /\ \A r \in Ranks : inplace[r] => (r = 0 /\ kind = "alltoall")
  /\ layout = [r \in Ranks |-> "asc"]
  /\ Fresh

SpecPipeline == InitPipeline /\ [][Next]_vars

\* Cooperating participants under a fair scheduler: every rank makes the
\* same MaxCalls calls of one collective with arguments that pass the
\* assertions, and a rank that can take a step is not starved for ever.
CallValid(r) == Call(r) /\ PrecondOK(args'[r])

Step(r) ==
  \/ CallValid(r)
  \/ Publish(r)
  \/ PollReady(r)
  \/ Copy(r)
  \/ PollBuffers(r)
  \/ PollDispls(r)
  \/ FetchBase(r)
  \/ CopyV(r)
  \/ BarrierEnter(r)
  \/ BarrierLeave(r)
  \/ Free(r)
  \/ collUpdateBuffer(r)

InitFair ==
  /\ kind \in Kinds
  /\ ncalls = MaxCalls
  /\ inplace \in [Ranks -> BOOLEAN]
  /\ \A r \in Ranks : inplace[r] => r = 0
  /\ layout = [r \in Ranks |-> "asc"]
  /\ Fresh

NextFair == \E r \in Ranks : Step(r)

SpecFair == InitFair /\ [][NextFair]_vars /\ \A r \in Ranks : WF_vars(Step(r))

\* Creation of the communicators: every participant is handed an index point
\* in 0 .. Size, a domain volume in 0 .. Size and either the right number of
\* futures or one less.
TaskSet ==
  {t \in [point : 0 .. Size, num_ranks : 0 .. Size, nfutures : 0 .. (Size + 1),
          unique_id : {0}] : t.nfutures \in {t.num_ranks, t.num_ranks + 1}}

InitCreate ==
  /\ kind = "alltoall"
  /\ ncalls = 0
  /\ inplace = [r \in Ranks |-> FALSE]
  /\ layout = [r \in Ranks |-> "asc"]
  /\ task \in [Ranks -> TaskSet]
  /\ comm = [r \in Ranks |-> NoComm]
  /\ pc = [r \in Ranks |-> "nocomm"]
  /\ current_buffer_idx = [r \in Ranks |-> -1]
  /\ Blank

NextCreate == \E r \in Ranks : init_cpucoll(r)

SpecCreate == InitCreate /\ [][NextCreate]_vars

\* Groups in one process: the participants are split over one or two groups
\* (unique ids 0 and 1), ranked within their group in participant order, and
\* every group runs pipelined alltoall calls with distinct buffers.
GroupSize(G, r) == Cardinality({q \in Ranks : G[q] = G[r]})
RankIn(G, r) == Cardinality({q \in Ranks : G[q] = G[r] /\ q < r})

InitGroups ==
  /\ kind = "alltoall"
  /\ ncalls = MaxCalls
  /\ inplace = [r \in Ranks |-> FALSE]
  /\ layout = [r \in Ranks |-> "asc"]
  /\ \E G \in [Ranks -> {0, 1}] :
       /\ G[0] = 0
       /\ task = [r \in Ranks |-> TaskOf(RankIn(G, r), GroupSize(G, r), G[r])]
  /\ comm = [r \in Ranks |-> CreateArgs(task[r])]
  /\ pc = [r \in Ranks |-> "idle"]
  /\ current_buffer_idx = [r \in Ranks |-> 0]
  /\ Blank

NextGroups ==
  \E r \in Ranks :
    \/ Call(r)
    \/ Publish(r)
    \/ PollReady(r)
    \/ Copy(r)
    \/ BarrierEnter(r)
    \/ BarrierLeave(r)
    \/ collUpdateBuffer(r)

SpecGroups == InitGroups /\ [][NextGroups]_vars

\* ---------------------------------------------------------------- claims
\* rank r has returned from its k-th call and has not entered the next one
Returned(r, k) == pc[r] = "idle" /\ ncall[r] = k
AllReturned(k) == \A r \in Ranks : Returned(r, k)

\* what the receive buffer of rank r held when its current call began
InitialElem(r, e) == IF inplace[r] THEN Tok(ncall[r], r, e) ELSE Empty

\* the transposed payload of call ncall[r]: segment p of rank r's receive
\* buffer is segment r of rank p's send buffer
TransposedA2A(r) ==
  [e \in 0 .. (Size * Count - 1) |->
     Tok(ncall[r], e \div Count, r * Count + (e % Count))]

\* the ragged transpose: the recvcounts[p] elements at rdispls[p] of rank r
\* are the elements at rank p's own sdispls[r]; the rest is untouched
TransposedV(r) ==
  [e \in 0 .. (UserLen(r, args[r]) - 1) |->
     IF \E p \in Ranks : e >= rdispls(r)[p] /\ e < rdispls(r)[p] + recvcounts(r)[p]
       THEN LET p == CHOOSE q \in Ranks :
                       e >= rdispls(r)[q] /\ e < rdispls(r)[q] + recvcounts(r)[q]
            IN  Tok(ncall[r], p, sdispls(p)[r] + (e - rdispls(r)[p]))
       ELSE InitialElem(r, e)]

\* C1: once all ranks have returned from one alltoall call made with distinct
\* send and receive buffers, segment p of recv_buf on rank r holds the data
\* rank p placed in segment r of its send buffer, for all r and p.
C1_Transpose ==
  (kind = "alltoall" /\ AllReturned(1) /\ \A q \in Ranks : ~inplace[q])
    => \A r \in Ranks : recvbuf[r] = TransposedA2A(r)

\* C2: when a rank returns from an alltoallv call in which the ranks pass
\* distinct send and receive buffers, with arbitrary non-overlapping tables
\* and matching counts, the recvcounts[p] elements at rdispls[p] of its
\* receive buffer are the elements at rank p's own sdispls[r] of rank p's send
\* buffer, for all p.
C2_RaggedTranspose ==
  \A r \in Ranks :
    (kind = "alltoallv" /\ Returned(r, 1) /\ \A q \in Ranks : ~inplace[q])
      => recvbuf[r] = TransposedV(r)

\* C2 witness: a ragged call with distinct buffers has returned everywhere,
\* with a sorted table on one rank and a descending table on another.
C2_Witness ==
  /\ kind = "alltoallv"
  /\ AllReturned(1)
  /\ \A q \in Ranks : ~inplace[q]
  /\ \E p \in Ranks : layout[p] = "asc"
  /\ \E p \in Ranks : layout[p] = "desc"
  /\ \A r \in Ranks : recvbuf[r] = TransposedV(r)

Transposed(r) == IF kind = "alltoall" THEN TransposedA2A(r) ELSE TransposedV(r)

\* the receive buffer of rank r holds every peer's data of r's current call
Delivered(r) ==
  \A e \in 0 .. (RecvLen(r, args[r]) - 1) : recvbuf[r][e] = Transposed(r)[e]

\* C3: the receive buffers after a call in which ranks pass aliased buffers
\* (with sorted tables, as the scratch sizing assumes) equal the receive
\* buffers of the same call made with distinct buffers holding the same data
\* (the transposed payload), and no published pointer names an aliased buffer
\* its owner is overwriting.
C3_InPlaceEquivalence ==
  /\ (/\ AllReturned(1)
      /\ \E q \in Ranks : inplace[q]
      /\ \A q \in Ranks : inplace[q] => layout[q] = "asc")
       => \A r \in Ranks : Delivered(r)
  /\ \A s \in Slots, r \in Ranks :
       buffers[s][r] # NULL =>
         buffers[s][r][1] = (IF inplace[r] THEN "scratch" ELSE "send")

\* C4: with N consecutive calls and no synchronisation between them other
\* than each call's barrier, the receive buffer of a rank returning from its
\* k-th call holds exactly the data its peers sent in their k-th call, for
\* every k, also when k exceeds the pool depth.
C4_Pipelining ==
  \A r \in Ranks, k \in 1 .. MaxCalls :
    (Returned(r, k) /\ \A q \in Ranks : ~inplace[q]) => Delivered(r)

\* the peer whose buffer the last completed read of rank r was made from
LastPeer(r) == (r + Size - (i[r] - 1)) % Size
HasRead(r) == i[r] >= 2 /\ pc[r] # "copyv"

\* the pointer rank p publishes in its k-th call
PublishedPtr(p, k) == IF InPlace(p) THEN ScratchBuf(p, k) ELSE SendBuf(p, k)

\* C5: the pointer (and, in alltoallv, the displacement table) a rank reads
\* from a peer it has observed as ready, in its second or a later call, is the
\* one the peer published for the call of the same number, never a value the
\* entry held from an earlier call.
C5_SlotIsolation ==
  \A r \in Ranks :
    (HasRead(r) /\ ncall[r] >= 2)
      => /\ src_base[r] = PublishedPtr(LastPeer(r), ncall[r])
         /\ kind = "alltoallv" => displs_loc[r] = DisplsTable(LastPeer(r), ncall[r])

InLoop(q) == pc[q] \in {"poll", "copy", "poll2", "fetch", "copyv"}
PastLoop(q, k) ==
  \/ ncall[q] > k
  \/ ncall[q] = k
       /\ pc[q] \in {"barrier", "inbarrier", "free", "advance", "idle", "aborted"}

\* the pointer a rank is about to copy from
CopySource(r) ==
  IF pc[r] = "copy" THEN buffers[current_buffer_idx[r]][recvfrom_global_rank(r)]
                    ELSE src_base[r]

\* C6: a scratch buffer is freed only after every peer has finished its copy
\* loop of that call, and no rank copies from a published pointer whose
\* scratch buffer has been freed.
C6_NoUseAfterFree ==
  /\ \A r \in Ranks :
       pc[r] = "free" => \A q \in Ranks : PastLoop(q, ncall[r])
  /\ \A r \in Ranks :
       (pc[r] \in {"copy", "copyv"} /\ CopySource(r)[1] = "scratch")
         => alloc[CopySource(r)[2]] = CopySource(r)[3]

\* rank r writes its entries of slot s in this step, for call WriteCall(r)
SlotWrite(r, s) ==
  \/ pc[r] = "publish" /\ todo'[r] # todo[r] /\ s = current_buffer_idx[r]
  \/ pc[r] = "advance" /\ pc'[r] = "idle" /\ s = current_buffer_idx'[r]
WriteCall(r) == IF pc[r] = "advance" THEN ncall[r] + 1 ELSE ncall[r]

\* C7: no rank resets or publishes into its entries of a pool slot for a
\* later call while a peer is still polling or reading that slot for an
\* earlier call.
C7_SlotDrained ==
  [][\A r \in Ranks, s \in Slots :
       SlotWrite(r, s) =>
         \A q \in Ranks \ {r} :
           (InLoop(q) /\ current_buffer_idx[q] = s) => ncall[q] >= WriteCall(r)]_vars

\* C7 witness: a rank has published into a slot an earlier call used while a
\* peer has not yet returned from the call before.
C7_Witness ==
  \E r \in Ranks, q \in Ranks :
    /\ ncall[r] > PoolDepth
    /\ pc[r] = "poll"
    /\ ncall[q] < ncall[r]
    /\ pc[q] \in {"inbarrier", "free", "advance"}

\* C8: in alltoall a rank that has observed buffers_ready[p] set reads from
\* buffers[p] a pointer p stored, never the value the entry held before p's
\* store.
C8_PublicationOrder ==
  \A r \in Ranks :
    (kind = "alltoall" /\ pc[r] = "copy")
      => LET b == buffers[current_buffer_idx[r]][recvfrom_global_rank(r)]
         IN  b # NULL /\ b[2] = recvfrom_global_rank(r)

\* the argument combinations the preconditions exclude
BadArgs(a) ==
  \/ kind = "alltoall" /\ (a.sendcount # a.recvcount \/ a.sendtype # a.recvtype)
  \/ kind = "alltoallv" /\ a.sendtype # a.recvtype

OwnUntouched(r) ==
  /\ \A s \in Slots :
       /\ buffers'[s][r] = buffers[s][r]
       /\ buffers_ready'[s][r] = buffers_ready[s][r]
       /\ displs'[s][r] = displs[s][r]
  /\ recvbuf'[r] = recvbuf[r]
  /\ alloc'[r] = alloc[r]
  /\ scratch'[r] = scratch[r]
  /\ current_buffer_idx'[r] = current_buffer_idx[r]
  /\ my_gen'[r] = my_gen[r]

\* C9: a call whose arguments violate a precondition aborts the caller at
\* entry: the step that enters it allocates nothing, writes no slot entry, no
\* receive buffer, no barrier state and no cursor, and the aborted rank never
\* does anything afterwards.
C9_PreconditionFatal ==
  [][\A r \in Ranks :
       /\ (pc[r] = "idle" /\ pc'[r] # "idle" /\ BadArgs(args'[r]))
            => /\ pc'[r] = "aborted"
               /\ OwnUntouched(r)
               /\ UNCHANGED <<buffers, buffers_ready, displs, bar_count, bar_gen>>
       /\ pc[r] = "aborted" => (pc'[r] = "aborted" /\ OwnUntouched(r))]_vars

\* C9 witness: a rank aborted at the entry of its second call, with a type
\* mismatch, while its peer is inside that call.
C9_Witness ==
  \E r \in Ranks, q \in Ranks :
    /\ pc[r] = "aborted"
    /\ ncall[r] = 1
    /\ args[r].sendtype # args[r].recvtype
    /\ ncall[q] = 2
    /\ pc[q] = "poll"

\* rank r has made its publication of call k visible (an aborted rank keeps
\* the number of the last call it entered)
Published(r, k) ==
  \/ ncall[r] > k
  \/ ncall[r] = k /\ pc[r] # "publish"

\* C10: a rank returns from call k only if every participant has published
\* for call k and every peer's data of call k is in its receive buffer.
C10_NoPartialSuccess ==
  \A q \in Ranks, k \in 1 .. MaxCalls :
    (Returned(q, k) /\ \A p \in Ranks : ~inplace[p])
      => /\ \A r \in Ranks : Published(r, k)
         /\ Delivered(q)

\* the part of C10 the barrier alone decides
C10_ReturnNeedsAllPublished ==
  \A q \in Ranks, k \in 1 .. MaxCalls :
    Returned(q, k) => \A r \in Ranks : Published(r, k)

\* the group a participant belongs to
GroupOf(r) == comm[r].unique_id

\* C11: when distinct groups run collective calls concurrently, the pointer a
\* participant reads from a slot entry was published by a member of its own
\* group, never by a participant of another group.
C11_GroupIndependence ==
  \A r \in Ranks :
    (i[r] >= 2 /\ src_base[r] # NULL) => GroupOf(src_base[r][2]) = GroupOf(r)

Completed(r) == IF pc[r] \in {"idle", "aborted", "nocomm"} THEN ncall[r] ELSE ncall[r] - 1

\* the positions that may follow position a of rank r within a call
StepsFrom(r, a) ==
  CASE a = "idle" -> {"publish", "aborted"}
    [] a = "publish" -> {"poll"}
    [] a = "poll" -> IF kind = "alltoall" THEN {"copy"} ELSE {"poll2"}
    [] a = "poll2" -> {"fetch", "poll"}
    [] a = "fetch" -> {"copyv"}
    [] a \in {"copy", "copyv"} -> IF i[r] < total_size(r) THEN {"poll"} ELSE {"barrier"}
    [] a = "barrier" -> {"inbarrier", IF inplace[r] THEN "free" ELSE "advance"}
    [] a = "inbarrier" -> {IF inplace[r] THEN "free" ELSE "advance"}
    [] a = "free" -> {"advance"}
    [] a = "advance" -> {"idle"}
    [] OTHER -> {}

\* the cursor of every rank is the number of calls it has completed modulo
\* the pool depth, and ranks inside the same call number use the same slot
CursorInStep ==
  /\ \A r \in Ranks : current_buffer_idx[r] = Completed(r) % PoolDepth
  /\ \A r \in Ranks, q \in Ranks :
       (Completed(r) < ncall[r] /\ Completed(q) < ncall[q] /\ ncall[r] = ncall[q])
         => current_buffer_idx[r] = current_buffer_idx[q]

\* C13: in every call a rank goes through publish, the size copies, the
\* barrier, the free of its scratch buffer if it has one, and the advance, in
\* this order; the cursor moves only in the advance, by one slot, after the
\* barrier, so it always equals the number of completed calls modulo the pool
\* depth and ranks in the same call number address the same slot.
C13_StepOrder ==
  [][/\ \A r \in Ranks :
          /\ pc'[r] # pc[r] => pc'[r] \in StepsFrom(r, pc[r])
          /\ (pc[r] \in {"copy", "copyv"} /\ pc'[r] # pc[r]) => i'[r] = i[r] + 1
          /\ pc'[r] = "poll" /\ pc[r] = "publish" => i'[r] = 1
          /\ current_buffer_idx'[r] # current_buffer_idx[r]
               => /\ pc[r] = "advance" /\ pc'[r] = "idle"
                  /\ current_buffer_idx'[r] = (current_buffer_idx[r] + 1) % PoolDepth
          /\ pc'[r] \in {"advance", "idle"} => alloc'[r] = 0
     /\ CursorInStep']_vars

\* C13 witness: a rank that calls in place has returned from more calls than
\* the pool has slots.
C13_Witness ==
  \E r \in Ranks :
    /\ inplace[r]
    /\ pc[r] = "idle"
    /\ ncall[r] > PoolDepth
    /\ current_buffer_idx[r] = ncall[r] % PoolDepth

\* this step is a step of rank r
Acts(r) == pc'[r] # pc[r] \/ todo'[r] # todo[r]

\* C14: a step of rank r, the publication and the pool advance included,
\* leaves unchanged the buffers, buffers_ready and displs entries of every
\* other rank in every slot: the entries of a rank are written by it alone.
C14_SingleWriter ==
  [][\A r \in Ranks :
       Acts(r) =>
         \A s \in Slots, q \in Ranks \ {r} :
           /\ buffers'[s][q] = buffers[s][q]
           /\ buffers_ready'[s][q] = buffers_ready[s][q]
           /\ displs'[s][q] = displs[s][q]]_vars

\* C14 witness: a rank has published in its second call, after an advance,
\* into a slot in which a peer's entry is set as well.
C14_Witness ==
  \E r \in Ranks, q \in Ranks :
    /\ q # r
    /\ pc[r] = "poll"
    /\ ncall[r] = 2
    /\ buffers[current_buffer_idx[r]][r] = sendbuf_tmp[r]
    /\ buffers[current_buffer_idx[r]][q] = sendbuf_tmp[q]
    /\ sendbuf_tmp[q] # NULL

\* C15: the buffer pointer and the displacement table an alltoallv copy from
\* peer p has used are both non-null and were both stored by p in one and
\* the same call.
C15_DualNullCheck ==
  \A r \in Ranks :
    (kind = "alltoallv" /\ HasRead(r)) =>
      /\ src_base[r] # NULL
      /\ displs_loc[r] # NULL
      /\ src_base[r][2] = LastPeer(r)
      /\ displs_loc[r][2] = LastPeer(r)
      /\ src_base[r][3] = displs_loc[r][3]

\* rank q has made its k-th enter of the barrier; rank r has returned from its
\* k-th enter (every call enters the barrier once, so round k is call k)
EnteredRound(q, k) ==
  \/ ncall[q] > k
  \/ ncall[q] = k /\ pc[q] \in {"inbarrier", "free", "advance", "idle", "aborted"}
LeftRound(r, k) ==
  \/ ncall[r] > k
  \/ ncall[r] = k /\ pc[r] \in {"free", "advance", "idle", "aborted"}

\* the ranks counted as arrivals of the round that is still open
Waiting == {q \in Ranks : pc[q] = "inbarrier" /\ my_gen[q] = bar_gen}

\* C16: no rank returns from its k-th barrier enter before every rank of the
\* group has made its k-th enter, for every round k; the arrivals counted in
\* the open round are exactly the ranks waiting in it, all of them in the same
\* round, also when a rank of the next round has already arrived.
C16_BarrierRounds ==
  /\ \A r \in Ranks, k \in 1 .. MaxCalls :
       LeftRound(r, k) => \A q \in Ranks : EnteredRound(q, k)
  /\ bar_count = Cardinality(Waiting)
  /\ \A r \in Waiting, q \in Waiting : ncall[r] = ncall[q]

\* C16 witness: a rank has made its enter of round 3 while a peer, released
\* from round 2, has not yet returned from it.
C16_Witness ==
  \E r \in Ranks, q \in Ranks :
    /\ pc[r] = "inbarrier" /\ ncall[r] = 2 /\ Released(r)
    /\ pc[q] = "inbarrier" /\ ncall[q] = 3 /\ ~Released(q)

\* the j-th peer of rank r in descending ring order
RingPeer(r, j) == (r + Size - j) % Size

\* the elements of rank r's receive buffer that belong to peer p
InSegment(r, p, e) ==
  IF kind = "alltoall"
    THEN e >= p * Count /\ e < (p + 1) * Count
    ELSE e >= rdispls(r)[p] /\ e < rdispls(r)[p] + recvcounts(r)[p]

\* C17: the i-th copy of a call by rank r, for i = 1 .. size, reads the slot
\* entry of peer (r + size - i) mod size and writes only that peer's segment;
\* the peers so visited are pairwise different, the rank itself is the last
\* one, the loop ends after exactly size copies, and when the rank comes to
\* poll itself its own entries are already set.
C17_RingTraversal ==
  [][/\ \A r \in Ranks :
          /\ (pc[r] \in {"copy", "copyv"} /\ pc'[r] # pc[r]) =>
               LET p == RingPeer(r, i[r])
                   s == current_buffer_idx[r]
               IN  /\ i[r] \in 1 .. Size
                   /\ i'[r] = i[r] + 1
                   /\ kind = "alltoall" => src_base'[r] = buffers[s][p]
                   /\ kind = "alltoallv" => displs_loc'[r] = displs[s][p]
                   /\ \A e \in DOMAIN recvbuf[r] :
                        recvbuf'[r][e] # recvbuf[r][e] => InSegment(r, p, e)
                   /\ (p = r) <=> (i[r] = Size)
                   /\ (pc'[r] = "barrier") <=> (i[r] = Size)
          /\ (pc'[r] = "poll" /\ i'[r] = Size) =>
               IF kind = "alltoall"
                 THEN buffers_ready'[current_buffer_idx'[r]][r]
                 ELSE /\ buffers'[current_buffer_idx'[r]][r] # NULL
                      /\ displs'[current_buffer_idx'[r]][r] # NULL
     /\ \A r \in Ranks, j1 \in 1 .. Size, j2 \in 1 .. Size :
          j1 # j2 => RingPeer(r, j1) # RingPeer(r, j2)]_vars

\* C17 witness: a rank has left the loop of its second call after size
\* copies, the last of them from its own published buffer.
C17_Witness ==
  \E r \in Ranks :
    /\ pc[r] = "barrier"
    /\ ncall[r] = 2
    /\ i[r] = Size + 1
    /\ src_base[r] = sendbuf_tmp[r]
    /\ sendbuf_tmp[r] # NULL

\* the send table of rank r is sorted by destination without overlap
SortedTable(r) ==
  \A p \in Ranks :
    /\ sdispls(r)[p] >= 0
    /\ p + 1 \in Ranks => sdispls(r)[p] + sendcounts(r)[p] <= sdispls(r)[p + 1]

\* every peer expects from rank r what rank r sends to it
CountsMatch(r) == \A p \in Ranks : recvcounts(p)[r] = sendcounts(r)[p]

\* C18: while the scratch buffer of an in-place alltoallv call is allocated
\* it holds exactly the first sdispls[size-1] + sendcounts[size-1] elements
\* of the caller's buffer; if the rank's send table is sorted without
\* overlap and the peers' receive counts match its send counts, the range
\* [sdispls[p], sdispls[p] + recvcounts_p[r]) of every peer p lies inside the
\* scratch buffer, and so does the range of every copy a peer is about to
\* make through the rank's published table.
C18_ScratchBound ==
  \A r \in Ranks :
    (kind = "alltoallv" /\ inplace[r] /\ alloc[r] # 0) =>
      /\ alloc[r] = ncall[r]
      /\ Len(scratch[r]) = sdispls(r)[Size - 1] + sendcounts(r)[Size - 1]
      /\ \A e \in 1 .. Len(scratch[r]) : scratch[r][e] = Tok(ncall[r], r, e - 1)
      /\ (SortedTable(r) /\ CountsMatch(r)) =>
           /\ \A p \in Ranks :
                /\ sdispls(r)[p] >= 0
                /\ sdispls(r)[p] + recvcounts(p)[r] <= Len(scratch[r])
           /\ \A p \in Ranks :
                (/\ pc[p] = "copyv"
                 /\ src_base[p] = ScratchBuf(r, alloc[r])
                 /\ displs[current_buffer_idx[p]][recvfrom_global_rank(p)] # NULL) =>
                  LET tab == TableOf(displs[current_buffer_idx[p]][recvfrom_global_rank(p)])
                      src == SrcOffsetV(p, recvfrom_global_rank(p), tab)
                  IN  /\ src >= 0
                      /\ src + CopyLenV(p, recvfrom_global_rank(p)) <= Len(scratch[r])

\* C18 witness: a peer has copied its segment out of the allocated scratch
\* buffer of an in-place rank whose table is sorted, and the segment ends at
\* the last element of the scratch buffer.
C18_Witness ==
  \E r \in Ranks, p \in Ranks :
    /\ p # r
    /\ kind = "alltoallv" /\ inplace[r] /\ alloc[r] = 1
    /\ SortedTable(r) /\ CountsMatch(r)
    /\ HasRead(p) /\ LastPeer(p) = r /\ ncall[p] = 1
    /\ src_base[p] = ScratchBuf(r, 1)
    /\ sdispls(r)[p] + recvcounts(p)[r] = Len(scratch[r])
    /\ recvbuf[p][rdispls(p)[r]] = Tok(1, r, sdispls(r)[p])

CompletedSet == {Completed(r) : r \in Ranks}

\* C20: the numbers of calls completed by any two ranks of the group differ
\* by at most one; as the cursor of a rank is its number of completed calls
\* modulo the pool depth, the slots in use are those of at most two
\* consecutive calls.
C20_BoundedSkew ==
  /\ \A r \in Ranks, q \in Ranks : Completed(r) - Completed(q) <= 1
  /\ \A r \in Ranks : current_buffer_idx[r] = Completed(r) % PoolDepth
  /\ \E m \in 0 .. MaxCalls : CompletedSet \subseteq {m, m + 1}
  /\ Cardinality({current_buffer_idx[r] : r \in Ranks}) <= 2

\* C20 witness: one rank has returned from its last call and moved to the
\* next slot while another is still inside that call, after its barrier.
C20_Witness ==
  \E r \in Ranks, q \in Ranks :
    /\ Returned(r, MaxCalls)
    /\ pc[q] = "advance" /\ ncall[q] = MaxCalls
    /\ Completed(r) = Completed(q) + 1
    /\ current_buffer_idx[r] = (current_buffer_idx[q] + 1) % PoolDepth

====
